---- MODULE Spec2Model ----
(***************************************************************************)
(* Cursor Agent Notifier (cursor_notifier.py): the poll loop of            *)
(* Notifier.run, the pane monitoring filter, the activity classifier, the  *)
(* per-pane transition tracker and the idle-notification dispatcher.       *)
(*                                                                         *)
(* The Notifier object is the record `self`.  Every method is an operator  *)
(* that takes the object and the outcomes of the external calls it makes   *)
(* (tmux, git, urlopen) and returns the updated object together with the   *)
(* ordered list of effects (external calls, log lines, sleeps) it caused.  *)
(***************************************************************************)
EXTENDS Integers, Sequences, FiniteSets, TLC

VARIABLES
    args,       \* the arguments main() passed to Notifier(...)
    self,       \* the Notifier object: configuration and pane_id_to_state
    pc,         \* position of run(): "start", "list", "panes", "exit"; of a method
                \* called on its own: "call", "called"
    exit_status,\* argument of sys.exit, None while the process runs
    panes,      \* the pane list of the current cycle (result of _list_tmux_panes)
    idx,        \* number of panes of the current cycle already processed
    now,        \* the wall clock read by time.time(), in seconds
    cycle,      \* number of poll cycles started
    effects,    \* external calls and outputs of the last step, in order
    event,      \* what the last step did (names the branch taken; not program state)
    observed,   \* the arguments of the tracker call of the last step, None without one
    cycle_events,\* the events of the panes processed so far in the current cycle
    undelivered,\* pane ids whose last idle notification was not delivered and that
                \* were not seen active since
    twin,       \* a second Notifier given the same inputs, with dry_run set
    twin_effects,\* the effects of the twin's last step
    history,    \* per pane id, the observations fed to the tracker and their outcome
    stale,      \* the pane ids stored as active that the last cycle ended did not
                \* feed to the tracker (kept by the steps of SpecStale only)
    call        \* the last call of a method made on its own: its arguments, the
                \* outcome of its external call, its result and its effects

vars == <<args, self, pc, exit_status, panes, idx, now, cycle, effects, event, observed,
          cycle_events, undelivered, twin, twin_effects, history, stale, call>>

-----------------------------------------------------------------------------
(* Bounds of the model *)

MaxCycles == 3
MaxPanes == 2
MaxObs == 5

-----------------------------------------------------------------------------
(* Python values *)

None == <<>>
Some(x) == <<x>>
Val(opt) == opt[1]

\* bool(x) of an Optional[str]: None and "" are false
Truthy(opt) == opt # None /\ opt # Some("")

Max(a, b) == IF a >= b THEN a ELSE b

RECURSIVE Str(_)
\* the string made of a sequence of one-character strings
Str(chars) == IF chars = <<>> THEN "" ELSE Head(chars) \o Str(Tail(chars))

LastN(s, n) == IF Len(s) <= n THEN s ELSE SubSeq(s, Len(s) - n + 1, Len(s))

-----------------------------------------------------------------------------
(* Characters.  A text (pane scrollback, the stdout of git) is a sequence   *)
(* of one-character strings, "\n" between its lines.                        *)

Digits == {"0", "1", "2", "3", "4", "5", "6", "7", "8", "9"}
Whitespace == {" ", "\t", "\n"}
UpperCase == <<"A", "B", "C", "D", "E", "F", "G", "H", "I", "J", "K", "L", "M",
               "N", "O", "P", "Q", "R", "S", "T", "U", "V", "W", "X", "Y", "Z">>
LowerCase == <<"a", "b", "c", "d", "e", "f", "g", "h", "i", "j", "k", "l", "m",
               "n", "o", "p", "q", "r", "s", "t", "u", "v", "w", "x", "y", "z">>
Upper == {UpperCase[i] : i \in 1..Len(UpperCase)}
WordChars == Digits \cup Upper \cup {LowerCase[i] : i \in 1..Len(LowerCase)} \cup {"_"}
Fold == [c \in Upper |-> LowerCase[CHOOSE i \in 1..Len(UpperCase) : UpperCase[i] = c]]

\* \w of the regex engine
IsWordChar(c) == c \in WordChars

\* case folding of re.IGNORECASE
Lower(c) == IF c \in Upper THEN Fold[c] ELSE c

RECURSIVE LStrip(_)
LStrip(s) == IF s # <<>> /\ Head(s) \in Whitespace THEN LStrip(Tail(s)) ELSE s

RECURSIVE RStrip(_)
RStrip(s) ==
    IF s # <<>> /\ s[Len(s)] \in Whitespace THEN RStrip(SubSeq(s, 1, Len(s) - 1)) ELSE s

\* str.strip()
Strip(s) == RStrip(LStrip(s))

RECURSIVE Join(_)
\* "\n".join(lines)
Join(lines) ==
    IF lines = <<>> THEN <<>>
    ELSE IF Len(lines) = 1 THEN lines[1]
    ELSE lines[1] \o <<"\n">> \o Join(Tail(lines))

\* the literal `lit` (lower case) occurs in s at position i, ignoring case
LitAt(s, i, lit) ==
    /\ i >= 1
    /\ i + Len(lit) - 1 <= Len(s)
    /\ \A k \in 1..Len(lit) : Lower(s[i + k - 1]) = lit[k]

\* \b at the gap before position i of s (1 <= i <= Len(s) + 1)
WordBoundary(s, i) ==
    LET before == i > 1 /\ IsWordChar(s[i - 1])
        after == i <= Len(s) /\ IsWordChar(s[i])
    IN before # after

RECURSIVE SplitFrom(_, _, _)
SplitFrom(s, cur, acc) ==
    IF s = <<>> THEN (IF cur = <<>> THEN acc ELSE Append(acc, cur))
    ELSE IF Head(s) = "\n" THEN SplitFrom(Tail(s), <<>>, Append(acc, cur))
    ELSE SplitFrom(Tail(s), Append(cur, Head(s)), acc)

\* str.splitlines(): the lines of s without their line ends; a final line end
\* opens no further line
splitlines(s) == SplitFrom(s, <<>>, <<>>)

RECURSIVE Lines(_)
\* the text whose lines are `ls`, each ended by a newline (what tmux prints)
Lines(ls) == IF ls = <<>> THEN <<>> ELSE Head(ls) \o <<"\n">> \o Lines(Tail(ls))

RECURSIVE Rep(_, _)
Rep(x, n) == IF n = 0 THEN <<>> ELSE <<x>> \o Rep(x, n - 1)

-----------------------------------------------------------------------------
(* Module constants and regular expressions *)

DEFAULT_MATCH_COMMAND == "^(cursor|cursor-agent)$"
DEFAULT_MATCH_TEXT == "cursor[-_ ]?agent|Cursor Agent|Cursor-?Agent"
TAIL_LINES == 20
FALLBACK_LINES == 40
MIN_INTERVAL == 2
MIN_SCAN_LINES == 20
EMDASH == "--"   \* stands for the character U+2014 of the message

\* TOKEN_REGEX.search(s): \b(\d+\s+tokens|tokens)\b, re.IGNORECASE
TOKEN_REGEX_search(s) ==
    LET tokens == <<"t", "o", "k", "e", "n", "s">>
        word(i) == LitAt(s, i, tokens) /\ WordBoundary(s, i + Len(tokens))
        counted(j, i) ==
            \E k \in (j + 1)..(i - 1) :
                /\ \A d \in j..(k - 1) : s[d] \in Digits
                /\ \A w \in k..(i - 1) : s[w] \in Whitespace
    IN \E i \in 1..Len(s) :
           /\ word(i)
           /\ \/ WordBoundary(s, i)
              \/ \E j \in 1..(i - 2) : WordBoundary(s, j) /\ counted(j, i)

\* re.compile(DEFAULT_MATCH_TEXT, re.IGNORECASE).search(s)
MatchTextSearch(s) ==
    LET cursor == <<"c", "u", "r", "s", "o", "r">>
        agent == <<"a", "g", "e", "n", "t">>
    IN \E i \in 1..Len(s) :
           /\ LitAt(s, i, cursor)
           /\ \/ LitAt(s, i + 6, agent)
              \/ i + 6 <= Len(s) /\ s[i + 6] \in {"-", "_", " "} /\ LitAt(s, i + 7, agent)
              \/ i + 6 <= Len(s) /\ s[i + 6] = " " /\ LitAt(s, i + 7, agent)
              \/ i + 6 <= Len(s) /\ s[i + 6] = "-" /\ LitAt(s, i + 7, agent)

\* re.compile(DEFAULT_MATCH_COMMAND).search(cmd), cmd one field of a tmux line
MatchCommandSearch(cmd) == cmd \in {"cursor", "cursor-agent"}

\* re.compile(regex) if regex else None
Compile(regex) == IF regex = "" THEN None ELSE Some(regex)

-----------------------------------------------------------------------------
(* The scrollback texts the environment can return, and the two regular     *)
(* expression searches tabulated over them (each is evaluated once per text) *)

TokensLine == <<"1", "2", "3", "4", " ", "t", "o", "k", "e", "n", "s">>
UpperTokensLine == <<"T", "o", "k", "e", "n", "s", " ", "u", "s", "e", "d">>
AgentLine == <<"C", "u", "r", "s", "o", "r", " ", "A", "g", "e", "n", "t">>
PromptLine == <<"$", " ">>
DoneLine == <<"d", "o", "n", "e">>

Texts ==
    { Lines(<<TokensLine>>),
      Lines(<<AgentLine, UpperTokensLine, <<>>, <<" ">> >>),
      Lines(<<AgentLine, DoneLine>>),
      Lines(<<PromptLine>>),
      Lines(<<TokensLine>> \o Rep(<<"x">>, TAIL_LINES)),
      <<>> }

TextMatches == [t \in Texts |-> MatchTextSearch(t)]

\* self.match_text.search(text)
match_text_search(text) ==
    IF text \in Texts THEN TextMatches[text] ELSE MatchTextSearch(text)

-----------------------------------------------------------------------------
(* Pane and PaneState *)

Pane(parts) ==
    [session_name |-> parts[1], window_index |-> parts[2], pane_index |-> parts[3],
     pane_id |-> parts[4], is_active_flag |-> (parts[5] = "1"),
     current_path |-> parts[6], pane_pid |-> parts[7], current_command |-> parts[8]]

human_ref(pane) ==
    pane.session_name \o ":" \o pane.window_index \o "." \o pane.pane_index

PaneState == [last_seen_active |-> None, last_transition_ts |-> 0]

-----------------------------------------------------------------------------
(* Effects: the external calls and outputs of a step, in order.  Each is a   *)
(* tuple whose first element names the call.                                 *)

HasEffect(es, op) == \E i \in 1..Len(es) : es[i][1] = op
Calls(es, op) == SelectSeq(es, LAMBDA e : e[1] = op)

Notified(es) == Len(Calls(es, "notify"))

\* an idle notification of this step was dispatched and not delivered
DeliveryFailed(obj, es) ==
    /\ HasEffect(es, "notify")
    /\ ~obj.dry_run
    /\ ~\E i \in 1..Len(es) : es[i][1] = "urlopen" /\ es[i][4] = "ok"

\* the pane ids with an undelivered notification after a tracker call
Undelivered(und, obj, id, looks_active, es) ==
    IF DeliveryFailed(obj, es) THEN und \cup {id}
    ELSE IF looks_active \/ HasEffect(es, "notify") THEN und \ {id}
    ELSE und

-----------------------------------------------------------------------------
(* Notifier *)

\* takes the interval and the line count as given
Notifier_without_floors(webhook_url, interval_seconds, scan_lines, match_command_regex, match_text_regex, verbose, dry_run) ==
    [webhook_url |-> webhook_url,
     interval_seconds |-> interval_seconds,
     scan_lines |-> scan_lines,
     match_command |-> Compile(match_command_regex),
     match_text |-> Compile(match_text_regex),
     verbose |-> verbose,
     dry_run |-> dry_run,
     pane_id_to_state |-> <<>>]

Notifier(webhook_url, interval_seconds, scan_lines, match_command_regex, match_text_regex, verbose, dry_run) ==
    [webhook_url |-> webhook_url,
     interval_seconds |-> Max(MIN_INTERVAL, interval_seconds),
     scan_lines |-> Max(MIN_SCAN_LINES, scan_lines),
     match_command |-> Compile(match_command_regex),
     match_text |-> Compile(match_text_regex),
     verbose |-> verbose,
     dry_run |-> dry_run,
     pane_id_to_state |-> <<>>]

\* self.log(f"{text}{detail}"): the line printed, without its clock prefix
log(obj, text, detail) == IF obj.verbose THEN << <<"print", text, detail>> >> ELSE <<>>

\* _capture_pane_text: cp is the outcome of subprocess.run
_capture_pane_text(pane_id, lines, cp) ==
    LET raised == cp.exc \/ cp.returncode # 0
    IN [effects |-> << <<"capture", pane_id, lines, IF raised THEN "error" ELSE "ok">> >>,
        raised |-> raised,
        ret |-> cp.stdout]

\* monitors a pane whose fallback capture failed
should_monitor_true_on_failure(obj, pane, cp) ==
    LET match_by_cmd ==
            obj.match_command # None /\ MatchCommandSearch(pane.current_command)
        cap == _capture_pane_text(pane.pane_id, FALLBACK_LINES, cp)
    IN IF match_by_cmd THEN [ret |-> TRUE, effects |-> <<>>]
       ELSE IF obj.match_text # None
       THEN [ret |-> cap.raised \/ match_text_search(cap.ret), effects |-> cap.effects]
       ELSE [ret |-> FALSE, effects |-> <<>>]

_should_monitor_pane(obj, pane, cp) ==
    LET match_by_cmd ==
            obj.match_command # None /\ MatchCommandSearch(pane.current_command)
        cap == _capture_pane_text(pane.pane_id, FALLBACK_LINES, cp)
    IN IF match_by_cmd THEN [ret |-> TRUE, effects |-> <<>>]
       ELSE IF obj.match_text # None
       THEN [ret |-> ~cap.raised /\ match_text_search(cap.ret), effects |-> cap.effects]
       ELSE [ret |-> FALSE, effects |-> <<>>]

\* takes the last 20 lines before it drops the blank ones
detect_active_counting_blanks(text) ==
    LET raw == splitlines(text)
        stripped == [i \in 1..Len(raw) |-> Strip(raw[i])]
        tail == Join(SelectSeq(LastN(stripped, TAIL_LINES), LAMBDA ln : ln # <<>>))
    IN TOKEN_REGEX_search(tail)

_detect_active(text) ==
    LET raw == splitlines(text)
        stripped == [i \in 1..Len(raw) |-> Strip(raw[i])]
        lines == SelectSeq(stripped, LAMBDA ln : ln # <<>>)
        tail == Join(LastN(lines, TAIL_LINES))
    IN TOKEN_REGEX_search(tail)

ActiveTexts == {t \in Texts : _detect_active(t)}

\* self._detect_active(text), tabulated over Texts
detect_active(text) == IF text \in Texts THEN text \in ActiveTexts ELSE _detect_active(text)

\* takes the answer "HEAD" of a detached checkout for a branch name
git_branch_keeps_head(path, cp) ==
    LET out == Strip(cp.stdout)
    IN [effects |-> << <<"git", path>> >>,
        ret |-> IF ~cp.exc /\ cp.returncode = 0 /\ out # <<>>
                THEN Some(Str(out)) ELSE None]

\* _get_git_branch: cp is the outcome of subprocess.run
_get_git_branch(path, cp) ==
    LET out == Strip(cp.stdout)
    IN [effects |-> << <<"git", path>> >>,
        ret |-> IF ~cp.exc /\ cp.returncode = 0 /\ out # <<>> /\ Str(out) # "HEAD"
                THEN Some(Str(out)) ELSE None]

\* _post_discord_message: resp is the outcome of urlopen
_post_discord_message(obj, content, resp) ==
    IF ~Truthy(obj.webhook_url) THEN [effects |-> <<>>, raised |-> TRUE]
    ELSE LET raised == resp.exc \/ ~(200 <= resp.status /\ resp.status < 300)
         IN [effects |-> << <<"urlopen", Val(obj.webhook_url), [content |-> content],
                              IF raised THEN "error" ELSE "ok">> >>,
             raised |-> raised]

\* posts in dry-run mode too
send_ignoring_dry_run(obj, pane, git, resp) ==
    LET path == pane.current_path
        branch == _get_git_branch(path, git)
        base == "Cursor-Agent idle in " \o human_ref(pane) \o " " \o EMDASH \o " " \o path
        message == IF branch.ret # None /\ Val(branch.ret) # ""
                   THEN base \o " (branch " \o Val(branch.ret) \o ")" ELSE base
        post == _post_discord_message(obj, message, resp)
    IN << <<"notify", pane.pane_id>> >> \o branch.effects \o log(obj, "NOTIFY: ", message)
          \o post.effects
          \o (IF post.raised THEN log(obj, "Failed to send webhook: ", "exc") ELSE <<>>)

_send_idle_notification(obj, pane, git, resp) ==
    LET path == pane.current_path
        branch == _get_git_branch(path, git)
        ref == human_ref(pane)
        base == "Cursor-Agent idle in " \o ref \o " " \o EMDASH \o " " \o path
        message == IF branch.ret # None /\ Val(branch.ret) # ""
                   THEN base \o " (branch " \o Val(branch.ret) \o ")" ELSE base
        post == _post_discord_message(obj, message, resp)
        head == << <<"notify", pane.pane_id>> >> \o branch.effects
                    \o log(obj, "NOTIFY: ", message)
    IN IF obj.dry_run THEN head
       ELSE head \o post.effects
                 \o (IF post.raised THEN log(obj, "Failed to send webhook: ", "exc") ELSE <<>>)

\* Variants of the tracker with one flaw each.
tracker_with(obj, pane, looks_active, git, resp, t, flaw) ==
    LET id == pane.pane_id
        known == id \in DOMAIN obj.pane_id_to_state
        map == IF known THEN obj.pane_id_to_state
               ELSE obj.pane_id_to_state @@ (id :> PaneState)
        state == IF ~known /\ flaw = "new pane counts as active"
                 THEN [last_seen_active |-> Some(TRUE), last_transition_ts |-> 0]
                 ELSE map[id]
        set(active, ts) ==
            LET new == [last_seen_active |-> Some(active), last_transition_ts |-> ts]
            IN [obj EXCEPT !.pane_id_to_state =
                   IF flaw = "one state for all panes"
                   THEN [k \in DOMAIN map |-> new]
                   ELSE [map EXCEPT ![id] = new]]
        sent == _send_idle_notification(obj, pane, git, resp)
    IN IF state.last_seen_active = None
       THEN [obj |-> IF flaw = "first call only registers"
                     THEN [obj EXCEPT !.pane_id_to_state = map]
                     ELSE set(looks_active, t),
             effects |-> log(obj, "Initialized state for ", human_ref(pane)),
             event |-> "Initialized"]
       ELSE IF Val(state.last_seen_active) /\ ~looks_active
       THEN [obj |-> IF flaw = "commit on delivery" /\ DeliveryFailed(obj, sent)
                     THEN obj ELSE set(looks_active, t),
             effects |-> sent,
             event |-> "BecameIdle"]
       ELSE IF ~Val(state.last_seen_active) /\ looks_active
       THEN [obj |-> set(looks_active, t),
             effects |-> IF flaw = "notify on both edges" THEN sent
                         ELSE log(obj, human_ref(pane), " became active again"),
             event |-> "BecameActive"]
       ELSE [obj |-> set(looks_active,
                         IF flaw = "always stamp" THEN t ELSE state.last_transition_ts),
             effects |-> <<>>,
             event |-> "NoChange"]

\* notifies on the idle -> active edge too
tracker_both_edges(obj, pane, looks_active, git, resp, t) ==
    tracker_with(obj, pane, looks_active, git, resp, t, "notify on both edges")

\* takes a pane it never saw for an active one
tracker_new_is_active(obj, pane, looks_active, git, resp, t) ==
    tracker_with(obj, pane, looks_active, git, resp, t, "new pane counts as active")

\* writes the timestamp on every call
tracker_always_stamps(obj, pane, looks_active, git, resp, t) ==
    tracker_with(obj, pane, looks_active, git, resp, t, "always stamp")

\* commits Idle only when the notification was delivered
tracker_commit_on_delivery(obj, pane, looks_active, git, resp, t) ==
    tracker_with(obj, pane, looks_active, git, resp, t, "commit on delivery")

\* keeps one state for all the panes
tracker_one_state_for_all(obj, pane, looks_active, git, resp, t) ==
    tracker_with(obj, pane, looks_active, git, resp, t, "one state for all panes")

\* enters the PaneState at the first call and sets it at the second
tracker_first_call_registers(obj, pane, looks_active, git, resp, t) ==
    tracker_with(obj, pane, looks_active, git, resp, t, "first call only registers")

\* the tracker: t is the value time.time() returns during the call.  The field
\* `event` names the branch taken (it is not a value of the program).
_maybe_notify_transition(obj, pane, looks_active, git, resp, t) ==
    LET id == pane.pane_id
        map == IF id \in DOMAIN obj.pane_id_to_state THEN obj.pane_id_to_state
               ELSE obj.pane_id_to_state @@ (id :> PaneState)
        state == map[id]
        set(active, ts) ==
            [obj EXCEPT !.pane_id_to_state =
                [map EXCEPT ![id] = [last_seen_active |-> Some(active),
                                     last_transition_ts |-> ts]]]
    IN IF state.last_seen_active = None
       THEN [obj |-> set(looks_active, t),
             effects |-> log(obj, "Initialized state for ", human_ref(pane)),
             event |-> "Initialized"]
       ELSE IF Val(state.last_seen_active) /\ ~looks_active
       THEN [obj |-> set(looks_active, t),
             effects |-> _send_idle_notification(obj, pane, git, resp),
             event |-> "BecameIdle"]
       ELSE IF ~Val(state.last_seen_active) /\ looks_active
       THEN [obj |-> set(looks_active, t),
             effects |-> log(obj, human_ref(pane), " became active again"),
             event |-> "BecameActive"]
       ELSE [obj |-> set(looks_active, state.last_transition_ts),
             effects |-> <<>>,
             event |-> "NoChange"]

\* _list_tmux_panes: cp is the outcome of subprocess.run, its stdout a sequence
\* of lines, each line the sequence of its tab-separated parts
_list_tmux_panes(cp) ==
    [effects |-> << <<"list-panes", IF cp.exc \/ cp.returncode # 0 THEN "error" ELSE "ok">> >>,
     raised |-> cp.exc \/ cp.returncode # 0,
     ret |-> LET good == SelectSeq(cp.stdout, LAMBDA parts : Len(parts) = 8)
             IN [i \in 1..Len(good) |-> Pane(good[i])]]

\* takes a failed capture for an empty scrollback
run_pane_empty_on_failure(obj, pane, tail_cp, cp, git, resp, t) ==
    LET monitor == _should_monitor_pane(obj, pane, tail_cp)
        cap == _capture_pane_text(pane.pane_id, obj.scan_lines, cp)
        looks_active == detect_active(IF cap.raised THEN <<>> ELSE cap.ret)
        tr == _maybe_notify_transition(obj, pane, looks_active, git, resp, t)
    IN IF ~monitor.ret
       THEN [obj |-> obj, effects |-> monitor.effects, event |-> "Skipped",
             observed |-> None]
       ELSE [obj |-> tr.obj,
             effects |-> monitor.effects \o cap.effects \o tr.effects,
             event |-> tr.event,
             observed |-> Some([pane_id |-> pane.pane_id, looks_active |-> looks_active])]

\* a known pane the filter turns away is taken for idle
run_pane_skipped_counts_as_idle(obj, pane, tail_cp, cp, git, resp, t) ==
    LET monitor == _should_monitor_pane(obj, pane, tail_cp)
        cap == _capture_pane_text(pane.pane_id, obj.scan_lines, cp)
        looks_active == detect_active(cap.ret)
        tr == _maybe_notify_transition(obj, pane, looks_active, git, resp, t)
        gone == _maybe_notify_transition(obj, pane, FALSE, git, resp, t)
    IN IF ~monitor.ret /\ pane.pane_id \in DOMAIN obj.pane_id_to_state
       THEN [obj |-> gone.obj, effects |-> monitor.effects \o gone.effects,
             event |-> "Skipped", observed |-> None]
       ELSE IF ~monitor.ret
       THEN [obj |-> obj, effects |-> monitor.effects, event |-> "Skipped",
             observed |-> None]
       ELSE IF cap.raised
       THEN [obj |-> obj,
             effects |-> monitor.effects \o cap.effects
                           \o log(obj, "Failed to capture ", human_ref(pane)),
             event |-> "CaptureFailed",
             observed |-> None]
       ELSE [obj |-> tr.obj,
             effects |-> monitor.effects \o cap.effects \o tr.effects,
             event |-> tr.event,
             observed |-> Some([pane_id |-> pane.pane_id, looks_active |-> looks_active])]

\* the filter enters a PaneState for every pane it looks at
run_pane_filter_registers(obj, pane, tail_cp, cp, git, resp, t) ==
    LET monitor == _should_monitor_pane(obj, pane, tail_cp)
        cap == _capture_pane_text(pane.pane_id, obj.scan_lines, cp)
        looks_active == detect_active(cap.ret)
        tr == _maybe_notify_transition(obj, pane, looks_active, git, resp, t)
        seen == IF pane.pane_id \in DOMAIN obj.pane_id_to_state THEN obj
                ELSE [obj EXCEPT !.pane_id_to_state = @ @@ (pane.pane_id :> PaneState)]
    IN IF ~monitor.ret
       THEN [obj |-> seen, effects |-> monitor.effects, event |-> "Skipped",
             observed |-> None]
       ELSE IF cap.raised
       THEN [obj |-> seen,
             effects |-> monitor.effects \o cap.effects
                           \o log(obj, "Failed to capture ", human_ref(pane)),
             event |-> "CaptureFailed",
             observed |-> None]
       ELSE [obj |-> tr.obj,
             effects |-> monitor.effects \o cap.effects \o tr.effects,
             event |-> tr.event,
             observed |-> Some([pane_id |-> pane.pane_id, looks_active |-> looks_active])]

\* the body of the for loop of run() for one pane: filter, capture, classify, track
run_pane(obj, pane, tail_cp, cp, git, resp, t) ==
    LET monitor == _should_monitor_pane(obj, pane, tail_cp)
        cap == _capture_pane_text(pane.pane_id, obj.scan_lines, cp)
        looks_active == detect_active(cap.ret)
        tr == _maybe_notify_transition(obj, pane, looks_active, git, resp, t)
    IN IF ~monitor.ret
       THEN [obj |-> obj, effects |-> monitor.effects, event |-> "Skipped",
             observed |-> None]
       ELSE IF cap.raised
       THEN [obj |-> obj,
             effects |-> monitor.effects \o cap.effects
                           \o log(obj, "Failed to capture ", human_ref(pane)),
             event |-> "CaptureFailed",
             observed |-> None]
       ELSE [obj |-> tr.obj,
             effects |-> monitor.effects \o cap.effects \o tr.effects,
             event |-> tr.event,
             observed |-> Some([pane_id |-> pane.pane_id, looks_active |-> looks_active])]

\* walks the pane list from its end
next_pane_from_end(ps, done) == ps[Len(ps) - done]

\* `for pane in panes`: the pane the loop takes after `done` panes
next_pane(ps, done) == ps[done + 1]

\* demands the URL in dry-run mode too
run_start_ignoring_dry_run(obj) ==
    LET hello == log(obj, "Starting Cursor Agent Notifier", "")
    IN IF ~Truthy(obj.webhook_url)
       THEN [effects |-> hello \o << <<"stderr", "Error: Discord webhook URL not provided.">>,
                                     <<"exit", 2>> >>,
             exit |-> Some(2)]
       ELSE [effects |-> hello, exit |-> None]

\* forgets the stored states when the pane list cannot be had
run_poll_forgetting(obj, cp) ==
    LET listed == _list_tmux_panes(cp)
    IN IF listed.raised
       THEN [obj |-> [obj EXCEPT !.pane_id_to_state = <<>>],
             failed |-> TRUE, panes |-> <<>>, slept |-> obj.interval_seconds,
             effects |-> listed.effects \o log(obj, "Failed to list tmux panes: ", "exc")
                           \o << <<"sleep", obj.interval_seconds>> >>]
       ELSE [obj |-> obj, failed |-> FALSE, panes |-> listed.ret, slept |-> 0,
             effects |-> listed.effects]

\* drops the states of the panes that left the list
run_poll_pruning(obj, cp) ==
    LET listed == _list_tmux_panes(cp)
        ids == {listed.ret[i].pane_id : i \in 1..Len(listed.ret)}
        kept == DOMAIN obj.pane_id_to_state \cap ids
    IN IF listed.raised
       THEN [obj |-> obj, failed |-> TRUE, panes |-> <<>>, slept |-> obj.interval_seconds,
             effects |-> listed.effects \o log(obj, "Failed to list tmux panes: ", "exc")
                           \o << <<"sleep", obj.interval_seconds>> >>]
       ELSE [obj |-> [obj EXCEPT !.pane_id_to_state = [id \in kept |-> @[id]]],
             failed |-> FALSE, panes |-> listed.ret, slept |-> 0,
             effects |-> listed.effects]

\* run(), lines 106-111: the pane-list query of a cycle; on failure log, sleep
\* and continue with the next cycle
run_poll(obj, cp) ==
    LET listed == _list_tmux_panes(cp)
    IN IF listed.raised
       THEN [obj |-> obj, failed |-> TRUE, panes |-> <<>>, slept |-> obj.interval_seconds,
             effects |-> listed.effects \o log(obj, "Failed to list tmux panes: ", "exc")
                           \o << <<"sleep", obj.interval_seconds>> >>]
       ELSE [obj |-> obj, failed |-> FALSE, panes |-> listed.ret, slept |-> 0,
             effects |-> listed.effects]

\* run() up to the loop: the start-up check of the webhook URL
run_start(obj) ==
    LET hello == log(obj, "Starting Cursor Agent Notifier", "")
    IN IF ~Truthy(obj.webhook_url) /\ ~obj.dry_run
       THEN [effects |-> hello \o << <<"stderr", "Error: Discord webhook URL not provided.">>,
                                     <<"exit", 2>> >>,
             exit |-> Some(2)]
       ELSE [effects |-> hello, exit |-> None]

-----------------------------------------------------------------------------
(* The environment: configurations and the outcomes of the external calls *)

URL == "https://discord.example/api/webhooks/1"

\* the arguments main() passes to Notifier(...)
Configs ==
    { <<Some(URL), 7, 120, DEFAULT_MATCH_COMMAND, DEFAULT_MATCH_TEXT, TRUE, FALSE>>,
      <<Some(URL), 7, 120, DEFAULT_MATCH_COMMAND, DEFAULT_MATCH_TEXT, FALSE, FALSE>>,
      <<Some(URL), 0, 0 - 5, DEFAULT_MATCH_COMMAND, "", TRUE, FALSE>>,
      <<Some(URL), 3, 40, "", DEFAULT_MATCH_TEXT, TRUE, FALSE>>,
      <<Some(URL), 7, 120, DEFAULT_MATCH_COMMAND, DEFAULT_MATCH_TEXT, TRUE, TRUE>>,
      <<None, 7, 120, DEFAULT_MATCH_COMMAND, DEFAULT_MATCH_TEXT, TRUE, TRUE>>,
      <<None, 7, 120, DEFAULT_MATCH_COMMAND, DEFAULT_MATCH_TEXT, TRUE, FALSE>>,
      <<Some(""), 7, 120, DEFAULT_MATCH_COMMAND, DEFAULT_MATCH_TEXT, FALSE, FALSE>> }

NewNotifier(c) == Notifier(c[1], c[2], c[3], c[4], c[5], c[6], c[7])

PaneIds == {"%1", "%2"}
Commands == {"cursor-agent", "bash"}

\* one well-formed line of `tmux list-panes`, split at its tabs
PaneLine(id, cmd) ==
    IF id = "%1" THEN <<"work", "0", "1", id, "1", "/home/u/proj", "4242", cmd>>
    ELSE <<"dev", "2", "0", id, "0", "/tmp", "4343", cmd>>

BadLine == <<"work", "0", "1">>
ListLines == {PaneLine(id, cmd) : id \in PaneIds, cmd \in Commands} \cup {BadLine}

\* tmux lists a pane once
Listings ==
    { ls \in UNION {[1..n -> ListLines] : n \in 0..MaxPanes} :
        \A i, j \in 1..Len(ls) :
            (i # j /\ Len(ls[i]) = 8 /\ Len(ls[j]) = 8) => ls[i][4] # ls[j][4] }

Raise == [exc |-> TRUE, returncode |-> 0, stdout |-> <<>>]
Fail == [exc |-> FALSE, returncode |-> 1, stdout |-> <<>>]
Ok(out) == [exc |-> FALSE, returncode |-> 0, stdout |-> out]
NotCalled == [exc |-> FALSE, returncode |-> 0, status |-> 0, stdout |-> <<>>]

ListOutcomes == {Raise, Fail} \cup {Ok(ls) : ls \in Listings}

CaptureOutcomes == {Raise, Fail} \cup {Ok(t) : t \in Texts}

GitOutcomes ==
    { Raise,
      [exc |-> FALSE, returncode |-> 128, stdout |-> <<>>],
      Ok(<<>>),
      Ok(<<"H", "E", "A", "D", "\n">>),
      Ok(<<"m", "a", "i", "n", "\n">>) }

Status(n) == [exc |-> FALSE, status |-> n]
Responses == {[exc |-> TRUE, status |-> 0], Status(204), Status(199), Status(300)}

-----------------------------------------------------------------------------
(* The process: main() constructs the Notifier and calls run() *)

Constructed(configs) ==
    /\ \E c \in configs :
          /\ args = c
          /\ self = NewNotifier(c)
          /\ twin = [NewNotifier(c) EXCEPT !.dry_run = TRUE]
    /\ exit_status = None
    /\ panes = <<>>
    /\ idx = 0
    /\ now = 0
    /\ cycle = 0
    /\ effects = <<>>
    /\ event = "Constructed"
    /\ observed = None
    /\ cycle_events = <<>>
    /\ undelivered = {}
    /\ twin_effects = <<>>
    /\ history = [id \in PaneIds |-> <<>>]
    /\ stale = {}
    /\ call = None

Init == Constructed(Configs) /\ pc = "start"

\* run(), lines 100-103
Start ==
    /\ pc = "start"
    /\ LET r == run_start(self)
       IN /\ effects' = r.effects
          /\ exit_status' = r.exit
          /\ pc' = IF r.exit = None THEN "list" ELSE "exit"
          /\ event' = IF r.exit = None THEN "Started" ELSE "Exited"
    /\ twin_effects' = run_start(twin).effects
    /\ observed' = None
    /\ UNCHANGED <<args, self, twin, panes, idx, now, cycle, cycle_events, undelivered,
                   history, stale, call>>

ActiveIds(obj) ==
    {id \in DOMAIN obj.pane_id_to_state :
        obj.pane_id_to_state[id].last_seen_active = Some(TRUE)}

\* run(), lines 106-111: the pane-list query that opens a cycle; `track` says
\* whether the step keeps `stale`
ListPanesStep(track) ==
    /\ pc = "list"
    /\ cycle < MaxCycles
    /\ cycle' = cycle + 1
    /\ \E cp \in ListOutcomes :
       \E r \in {run_poll(self, cp)} :
       \E tw \in {run_poll(twin, cp)} :
          /\ self' = r.obj
          /\ twin' = tw.obj
          /\ effects' = r.effects
          /\ twin_effects' = tw.effects
          /\ now' = now + r.slept
          /\ IF r.failed
             THEN /\ event' = "ListFailed"
                  /\ stale' = IF track THEN ActiveIds(self) ELSE stale
                  /\ UNCHANGED <<pc, panes, idx>>
             ELSE /\ event' = "Listed"
                  /\ panes' = r.panes
                  /\ idx' = 0
                  /\ pc' = "panes"
                  /\ UNCHANGED stale
    /\ observed' = None
    /\ UNCHANGED <<args, exit_status, cycle_events, undelivered, history, call>>

ListPanes == ListPanesStep(FALSE)

\* run(), lines 113-123: the loop body for the next pane of the list.  The
\* outcome of an external call is drawn only when the call is made.
ProcessPane ==
    /\ pc = "panes"
    /\ idx < Len(panes)
    /\ LET pane == next_pane(panes, idx)
           tails == IF HasEffect(_should_monitor_pane(self, pane, NotCalled).effects, "capture")
                    THEN CaptureOutcomes ELSE {NotCalled}
       IN \E tail_cp \in tails :
          \E cp \in (IF _should_monitor_pane(self, pane, tail_cp).ret
                     THEN CaptureOutcomes ELSE {NotCalled}) :
          \E dry \in {run_pane(self, pane, tail_cp, cp, NotCalled, NotCalled, now)} :
                \E git \in (IF HasEffect(dry.effects, "git") THEN GitOutcomes ELSE {NotCalled}) :
                \E resp \in (IF HasEffect(dry.effects, "urlopen") THEN Responses ELSE {NotCalled}) :
                \E r \in {run_pane(self, pane, tail_cp, cp, git, resp, now)} :
                \E tw \in {run_pane(twin, pane, tail_cp, cp, git, resp, now)} :
                      /\ self' = r.obj
                      /\ effects' = r.effects
                      /\ event' = r.event
                      /\ observed' = r.observed
                      /\ cycle_events' = Append(cycle_events, r.event)
                      /\ undelivered' =
                            IF r.observed = None THEN undelivered
                            ELSE Undelivered(undelivered, self, pane.pane_id,
                                             Val(r.observed).looks_active, r.effects)
                      /\ twin' = tw.obj
                      /\ twin_effects' = tw.effects
    /\ idx' = idx + 1
    /\ UNCHANGED <<args, pc, exit_status, panes, now, cycle, history, stale, call>>

TrackerEvents == {"Initialized", "BecameIdle", "BecameActive", "NoChange"}

\* the pane ids the loop over `ps` fed to the tracker, `events` naming what the
\* loop body did for each pane
FedInCycle(ps, events) ==
    {ps[i].pane_id : i \in {j \in 1..Len(events) : events[j] \in TrackerEvents}}

\* leaves the loop after one pass over the panes
Sleep_then_return ==
    /\ pc = "panes"
    /\ idx = Len(panes)
    /\ effects' = << <<"sleep", self.interval_seconds>> >>
    /\ twin_effects' = << <<"sleep", twin.interval_seconds>> >>
    /\ now' = now + self.interval_seconds
    /\ pc' = "exit"
    /\ panes' = <<>>
    /\ idx' = 0
    /\ event' = "Slept"
    /\ observed' = None
    /\ cycle_events' = <<>>
    /\ UNCHANGED <<args, self, twin, exit_status, cycle, undelivered, history, stale, call>>

\* run(), line 125 and back to line 105: the sleep that ends a cycle; `track`
\* says whether the step keeps `stale`
SleepStep(track) ==
    /\ pc = "panes"
    /\ idx = Len(panes)
    /\ effects' = << <<"sleep", self.interval_seconds>> >>
    /\ twin_effects' = << <<"sleep", twin.interval_seconds>> >>
    /\ now' = now + self.interval_seconds
    /\ pc' = "list"
    /\ panes' = <<>>
    /\ idx' = 0
    /\ event' = "Slept"
    /\ observed' = None
    /\ cycle_events' = <<>>
    /\ stale' = IF track THEN ActiveIds(self) \ FedInCycle(panes, cycle_events) ELSE stale
    /\ UNCHANGED <<args, self, twin, exit_status, cycle, undelivered, history, call>>

Sleep == SleepStep(FALSE)

Next == Start \/ ListPanes \/ ProcessPane \/ Sleep

Spec == Init /\ [][Next]_vars

\* the configurations of the runs checked for progress: with delivery, in
\* dry-run mode without a URL, and without either
LiveConfigs ==
    { c \in Configs : c[2] = 7 /\ c[6] /\ (c[1] = None \/ ~c[7]) }

InitLive == Constructed(LiveConfigs) /\ pc = "start"

\* the single thread of run() always takes its next step: every external call
\* returns or times out (subprocess timeout=5, urlopen timeout=10)
LiveSpec == InitLive /\ [][Next]_vars /\ WF_vars(Next)

\* --interval and --lines around their floors, in dry-run mode
FloorConfigs ==
    { <<None, c[1], c[2], DEFAULT_MATCH_COMMAND, DEFAULT_MATCH_TEXT, FALSE, TRUE>> :
        c \in { <<0 - 1, 0>>, <<0, 0 - 5>>, <<2, 20>>, <<3, 21>> } }

InitFloors == Constructed(FloorConfigs) /\ pc = "start"

SpecFloors == InitFloors /\ [][Next]_vars

\* the poll loop with `stale` kept, on the configurations of LiveConfigs
ListPanesStale == ListPanesStep(TRUE)
SleepStale == SleepStep(TRUE)

NextStale == Start \/ ListPanesStale \/ ProcessPane \/ SleepStale

SpecStale == InitLive /\ [][NextStale]_vars

-----------------------------------------------------------------------------
(* The tracker alone, fed arbitrary observation sequences *)

RECURSIVE SumLen(_, _)
SumLen(f, ids) ==
    IF ids = {} THEN 0
    ELSE LET id == CHOOSE x \in ids : TRUE
         IN Len(f[id]) + SumLen(f, ids \ {id})

InitTracker == Constructed(Configs) /\ pc = "tracker"

\* one call _maybe_notify_transition(pane, looks_active, text), a second after
\* the call before
Observe ==
    /\ pc = "tracker"
    /\ SumLen(history, PaneIds) < MaxObs
    /\ \E id \in PaneIds, looks_active \in BOOLEAN :
          LET pane == Pane(PaneLine(id, "cursor-agent"))
              t == now + 1
          IN \E dry \in {_maybe_notify_transition(self, pane, looks_active, NotCalled, NotCalled, t)} :
             \E git \in (IF HasEffect(dry.effects, "git") THEN GitOutcomes ELSE {NotCalled}) :
             \E resp \in (IF HasEffect(dry.effects, "urlopen") THEN Responses ELSE {NotCalled}) :
             \E r \in {_maybe_notify_transition(self, pane, looks_active, git, resp, t)} :
             \E tw \in {_maybe_notify_transition(twin, pane, looks_active, git, resp, t)} :
                   /\ self' = r.obj
                   /\ effects' = r.effects
                   /\ event' = r.event
                   /\ observed' = Some([pane_id |-> id, looks_active |-> looks_active])
                   /\ undelivered' = Undelivered(undelivered, self, id, looks_active, r.effects)
                   /\ twin' = tw.obj
                   /\ twin_effects' = tw.effects
                   /\ now' = t
                   /\ history' = [history EXCEPT ![id] =
                          Append(@, [looks_active |-> looks_active, event |-> r.event,
                                     notified |-> Len(Calls(r.effects, "notify"))])]
    /\ UNCHANGED <<args, pc, exit_status, panes, idx, cycle, cycle_events, stale, call>>

SpecTracker == InitTracker /\ [][Observe]_vars

-----------------------------------------------------------------------------
(* The methods called on their own, on arguments and outcomes of the         *)
(* external calls drawn from the sets below                                  *)

CallPanes ==
    {Pane(PaneLine(id, cmd)) :
        id \in PaneIds, cmd \in Commands \cup {"cursor", "cursor-agent-2"}}

SnakeLine == <<"c", "u", "r", "s", "o", "r", "_", "a", "g", "e", "n", "t">>
ShoutLine == <<">", " ", "C", "U", "R", "S", "O", "R", "-", "A", "G", "E", "N", "T">>
GluedLine == <<"c", "u", "r", "s", "o", "r", "a", "g", "e", "n", "t", "s">>
WideLine == <<"c", "u", "r", "s", "o", "r", " ", " ", "a", "g", "e", "n", "t">>
DotLine == <<"c", "u", "r", "s", "o", "r", ".", "a", "g", "e", "n", "t">>

\* what the fallback capture of the filter can return
TailTexts ==
    Texts \cup {Lines(<<PromptLine, l>>) : l \in {SnakeLine, ShoutLine, GluedLine, WideLine, DotLine}}

TailOutcomes == {Raise, Fail} \cup {Ok(t) : t \in TailTexts}

InitCalls == Constructed(Configs) /\ pc = "call"

\* one call self._should_monitor_pane(pane)
CallShouldMonitor ==
    /\ pc = "call"
    /\ \E pane \in CallPanes :
       \E cp \in (IF HasEffect(_should_monitor_pane(self, pane, NotCalled).effects, "capture")
                  THEN TailOutcomes ELSE {NotCalled}) :
       \E r \in {_should_monitor_pane(self, pane, cp)} :
          /\ call' = Some([op |-> "_should_monitor_pane", pane |-> pane, cp |-> cp,
                           ret |-> r.ret])
          /\ effects' = r.effects
    /\ event' = "Called"
    /\ pc' = "called"
    /\ UNCHANGED <<args, self, exit_status, panes, idx, now, cycle, observed,
                   cycle_events, undelivered, twin, twin_effects, history, stale>>

\* what `git rev-parse --abbrev-ref HEAD` can answer beyond GitOutcomes: a bare
\* line end, a name between blanks, "HEAD" without line end, a name with a
\* non-zero status
BranchOutcomes ==
    GitOutcomes \cup
    { Ok(<<"\n">>),
      Ok(<<" ", "d", "e", "v", " ", "\n">>),
      Ok(<<"H", "E", "A", "D">>),
      [exc |-> FALSE, returncode |-> 1, stdout |-> <<"m", "a", "i", "n", "\n">>] }

\* one call self._send_idle_notification(pane)
CallSendIdle ==
    /\ pc = "call"
    /\ \E pane \in CallPanes, git \in BranchOutcomes :
       \E resp \in (IF HasEffect(_send_idle_notification(self, pane, git, NotCalled), "urlopen")
                    THEN Responses ELSE {NotCalled}) :
          /\ call' = Some([op |-> "_send_idle_notification", pane |-> pane, git |-> git,
                           resp |-> resp])
          /\ effects' = _send_idle_notification(self, pane, git, resp)
    /\ event' = "Called"
    /\ pc' = "called"
    /\ UNCHANGED <<args, self, exit_status, panes, idx, now, cycle, observed,
                   cycle_events, undelivered, twin, twin_effects, history, stale>>

\* lines of a scrollback for the classifier
WordLine == <<" ", "t", "o", "k", "e", "n", "s">>
CapsLine == <<"T", "O", "K", "E", "N", "S", ".">>
DigitsGluedLine == <<"1", "2", "t", "o", "k", "e", "n", "s">>
PluralLine == <<"t", "o", "k", "e", "n", "s", "s">>
SnakeTokensLine == <<"m", "y", "_", "t", "o", "k", "e", "n", "s">>
HyphenLine == <<"i", "n", "-", "t", "o", "k", "e", "n", "s", " ">>
BlankLine == <<" ", "\t">>
FillerLine == <<"x">>

TopLines ==
    {WordLine, TokensLine, UpperTokensLine, CapsLine, DigitsGluedLine, PluralLine,
     SnakeTokensLine, HyphenLine, FillerLine}
LastLines == {FillerLine, BlankLine, <<>>, TokensLine, PluralLine}
Fillers == {0, 18, 19, 20}
Blanks == {0, 3}

\* a scrollback: a top line, `fill` lines "x", `blanks` blank lines, a last line
Scrollback(top, fill, blanks, last) ==
    Lines(<<top>> \o Rep(FillerLine, fill) \o Rep(BlankLine, blanks) \o <<last>>)

\* one call self._detect_active(text)
CallDetectActive ==
    /\ pc = "call"
    /\ \E top \in TopLines, fill \in Fillers, blanks \in Blanks, last \in LastLines :
       \E text \in {Scrollback(top, fill, blanks, last)} :
          call' = Some([op |-> "_detect_active", top |-> top, fill |-> fill,
                        blanks |-> blanks, last |-> last, text |-> text,
                        ret |-> _detect_active(text)])
    /\ event' = "Called"
    /\ pc' = "called"
    /\ effects' = <<>>
    /\ UNCHANGED <<args, self, exit_status, panes, idx, now, cycle, observed,
                   cycle_events, undelivered, twin, twin_effects, history, stale>>

NextCalls == CallShouldMonitor \/ CallSendIdle \/ CallDetectActive

SpecCalls == InitCalls /\ [][NextCalls]_vars

-----------------------------------------------------------------------------
(* Properties *)

Entry(obj, id) == obj.pane_id_to_state[id]
IsSet(obj, id) ==
    id \in DOMAIN obj.pane_id_to_state /\ Entry(obj, id).last_seen_active # None
Stored(active, ts) == [last_seen_active |-> Some(active), last_transition_ts |-> ts]
Fed(id, looks_active) == Some([pane_id |-> id, looks_active |-> looks_active])
\* C1: a tracker call for a pane whose state is set: Active and observed idle
\* dispatches exactly one notification and stores Idle with the time of the call,
\* a new timestamp; Idle and observed active dispatches none and stores Active
\* with the time of the call; an observation equal to the stored state
\* dispatches none.  No step dispatches a notification in any other case.
C1_Transitions ==
    [][ /\ \A id \in PaneIds, la \in BOOLEAN :
              (observed' = Fed(id, la) /\ IsSet(self, id)) =>
                 LET old == Entry(self, id)
                     new == Entry(self', id)
                     was == Val(old.last_seen_active)
                 IN /\ (was /\ ~la) =>
                          /\ Notified(effects') = 1
                          /\ new = Stored(FALSE, now')
                          /\ new.last_transition_ts > old.last_transition_ts
                    /\ (~was /\ la) =>
                          /\ Notified(effects') = 0
                          /\ new = Stored(TRUE, now')
                          /\ new.last_transition_ts > old.last_transition_ts
                    /\ (was = la) => Notified(effects') = 0
        /\ Notified(effects') > 0 =>
              \E id \in PaneIds :
                  /\ observed' = Fed(id, FALSE)
                  /\ IsSet(self, id)
                  /\ Val(Entry(self, id).last_seen_active)
      ]_vars

C1_Witness ==
    \E id \in PaneIds :
        /\ observed = Fed(id, FALSE)
        /\ event = "BecameIdle"
        /\ Notified(effects) = 1
        /\ Entry(self, id) = Stored(FALSE, now)
        /\ now > 0
        /\ HasEffect(effects, "urlopen")

\* C2: the first observation of a pane id (no entry in the state map) stores the
\* observed value with the time of the call and dispatches no notification,
\* whether the pane looks active or idle.
C2_FirstObservation ==
    [][ \A id \in PaneIds, la \in BOOLEAN :
           (observed' = Fed(id, la) /\ id \notin DOMAIN self.pane_id_to_state) =>
              /\ Entry(self', id) = Stored(la, now')
              /\ Notified(effects') = 0
              /\ ~HasEffect(effects', "urlopen")
              /\ event' = "Initialized"
      ]_vars

C2_Witness ==
    \E id \in PaneIds :
        /\ observed = Fed(id, FALSE)
        /\ event = "Initialized"
        /\ Entry(self, id) = Stored(FALSE, now)
        /\ effects # <<>>
        /\ \E other \in PaneIds \ {id} :
              IsSet(self, other) /\ Entry(self, other) = Stored(TRUE, now)

\* the observations of a pane made so far, and the outcomes recorded with them
Obs(h) == [i \in 1..Len(h) |-> h[i].looks_active]
Events(h) == [i \in 1..Len(h) |-> h[i].event]
Notifications(h) == [i \in 1..Len(h) |-> h[i].notified]
IdleEdges(h) == {i \in 2..Len(h) : h[i - 1].looks_active /\ ~h[i].looks_active}

RECURSIVE Sum(_)
Sum(ns) == IF ns = <<>> THEN 0 ELSE Head(ns) + Sum(Tail(ns))

\* C3: for every sequence of observations of one pane, the notifications
\* dispatched number the positions where the previous observation was active and
\* this one is idle, each dispatched at such a position; the observations
\* (active, active, idle, idle, active) give (Initialized, NoChange, BecameIdle,
\* NoChange, BecameActive) and one notification, at the third; between two
\* notifications of a pane lies an observation of it as active.
C3_NotificationsCountIdleEdges ==
    \A id \in PaneIds :
        LET h == history[id]
        IN /\ Sum(Notifications(h)) = Cardinality(IdleEdges(h))
           /\ \A i \in 1..Len(h) : h[i].notified > 0 => i \in IdleEdges(h)
           /\ Obs(h) = <<TRUE, TRUE, FALSE, FALSE, TRUE>> =>
                 /\ Events(h) = <<"Initialized", "NoChange", "BecameIdle", "NoChange",
                                  "BecameActive">>
                 /\ Notifications(h) = <<0, 0, 1, 0, 0>>
           /\ \A i, j \in 1..Len(h) :
                 (i < j /\ h[i].notified > 0 /\ h[j].notified > 0) =>
                    \E k \in (i + 1)..(j - 1) : h[k].looks_active

C3_Witness ==
    \E id \in PaneIds :
        /\ Obs(history[id]) = <<TRUE, TRUE, FALSE, FALSE, TRUE>>
        /\ Sum(Notifications(history[id])) = 1
        /\ HasEffect(effects, "print")

\* C4: an observation equal to the stored state changes nothing and dispatches
\* nothing: the state map, and in it the pane's activity value and timestamp, is
\* the same after the call, no notification is dispatched and nothing is posted.
C4_NoChangeIsIdempotent ==
    [][ \A id \in PaneIds, la \in BOOLEAN :
           (/\ observed' = Fed(id, la)
            /\ IsSet(self, id)
            /\ Entry(self, id).last_seen_active = Some(la)) =>
              /\ self' = self
              /\ Notified(effects') = 0
              /\ ~HasEffect(effects', "urlopen")
      ]_vars

\* three equal observations in a row, the clock two seconds past the stored stamp
C4_Witness ==
    \E id \in PaneIds :
        LET h == history[id]
            n == Len(h)
        IN /\ n >= 3
           /\ h[n].looks_active = h[n - 1].looks_active
           /\ h[n - 1].looks_active = h[n - 2].looks_active
           /\ observed = Fed(id, h[n].looks_active)
           /\ event = "NoChange"
           /\ Entry(self, id).last_transition_ts + 2 <= now

\* C5: when the delivery of an idle notification fails, the step still commits
\* the pane to Idle with the time of the call, run() stays in the loop over the
\* panes and goes on to the next pane, and the notification is not retried: an
\* idle observation of a pane whose notification was not delivered dispatches
\* and posts nothing, until the pane was observed active.
C5_FailedDeliveryCommitsAndIsNotRetried ==
    [][ /\ \A id \in PaneIds :
              (observed' = Fed(id, FALSE) /\ DeliveryFailed(self, effects')) =>
                 /\ Entry(self', id) = Stored(FALSE, now')
                 /\ id \in undelivered'
                 /\ pc' = "panes"
                 /\ exit_status' = None
                 /\ panes' = panes
                 /\ idx' = idx + 1
        /\ \A id \in undelivered :
              /\ Entry(self, id).last_seen_active = Some(FALSE)
              /\ observed' = Fed(id, FALSE) =>
                    /\ Notified(effects') = 0
                    /\ ~HasEffect(effects', "urlopen")
                    /\ id \in undelivered'
      ]_vars

\* the pane after the one whose delivery failed is fed to the tracker, and a
\* cycle later the failed pane is observed idle again
C5_Witness ==
    \E id \in undelivered :
        /\ observed = Fed(id, FALSE)
        /\ event = "NoChange"
        /\ Entry(self, id).last_transition_ts < now
        /\ ~self.dry_run

C5_WitnessNextPane ==
    /\ Len(cycle_events) = 2
    /\ cycle_events[1] = "BecameIdle"
    /\ cycle_events[2] \in TrackerEvents
    /\ panes[1].pane_id \in undelivered

NotifyLines(es) == SelectSeq(es, LAMBDA e : e[1] = "print" /\ e[2] = "NOTIFY: ")
Activity(obj) ==
    [id \in DOMAIN obj.pane_id_to_state |-> obj.pane_id_to_state[id].last_seen_active]

\* C6: with dry_run set no step calls urlopen; and a Notifier with dry_run set
\* (twin) that is given the same pane lists, captures and branch lookups as one
\* without it (self) logs the same NOTIFY lines in every step and holds the same
\* activity value for the same pane ids.
C6_DryRunPostsNothingAndTracksTheSame ==
    /\ self.dry_run => ~HasEffect(effects, "urlopen")
    /\ twin.dry_run /\ ~HasEffect(twin_effects, "urlopen")
    /\ NotifyLines(twin_effects) = NotifyLines(effects)
    /\ Calls(twin_effects, "notify") = Calls(effects, "notify")
    /\ Activity(twin) = Activity(self)

C6_Witness ==
    /\ ~self.dry_run
    /\ HasEffect(effects, "urlopen")
    /\ NotifyLines(twin_effects) # <<>>
    /\ NotifyLines(twin_effects) = NotifyLines(effects)
    /\ ~HasEffect(twin_effects, "urlopen")

\* C7: a step whose pane-list query fails leaves the Notifier as it was, makes
\* no capture, dispatches and posts nothing, sleeps the interval and leaves
\* run() at the next pane-list query; a query that succeeds leaves the Notifier
\* as it was too, so its panes meet the states stored before the failure.
C7_ListFailureSkipsTheCycle ==
    [][ /\ HasEffect(effects', "list-panes") => self' = self
        /\ (effects' # <<>> /\ effects'[1] = <<"list-panes", "error">>) =>
              /\ ~HasEffect(effects', "capture")
              /\ Notified(effects') = 0
              /\ ~HasEffect(effects', "git")
              /\ ~HasEffect(effects', "urlopen")
              /\ effects'[Len(effects')] = <<"sleep", self.interval_seconds>>
              /\ now' = now + self.interval_seconds
              /\ pc' = "list"
              /\ observed' = None
              /\ undelivered' = undelivered
      ]_vars

C7_Witness ==
    /\ effects # <<>>
    /\ effects[1] = <<"list-panes", "error">>
    /\ \E id \in PaneIds : IsSet(self, id) /\ Entry(self, id).last_seen_active = Some(TRUE)
    /\ cycle < MaxCycles
    /\ pc = "list"

\* C8: a step in which a capture fails leaves the Notifier as it was, feeds
\* nothing to the tracker and dispatches nothing, and run() goes on to the next
\* pane of the same list: every pane of the list is taken in turn.
C8_CaptureFailureSkipsThePane ==
    [][ /\ (\E i \in 1..Len(effects') :
               effects'[i][1] = "capture" /\ effects'[i][4] = "error") =>
              /\ self' = self
              /\ observed' = None
              /\ Notified(effects') = 0
              /\ ~HasEffect(effects', "urlopen")
              /\ pc' = "panes"
              /\ panes' = panes
              /\ idx' = idx + 1
        /\ pc' = "panes" => Len(cycle_events') = idx' /\ idx' <= Len(panes')
        /\ (pc = "panes" /\ pc' = "list") => idx = Len(panes)
      ]_vars

\* the main capture of the first pane failed (after its fallback capture
\* matched) and the second pane was fed to the tracker
C8_Witness ==
    /\ Len(cycle_events) = 2
    /\ cycle_events[1] = "CaptureFailed"
    /\ cycle_events[2] \in TrackerEvents
    /\ observed # None
    /\ panes[1].pane_id \notin DOMAIN self.pane_id_to_state

\* C9: without a webhook URL and without dry_run, run() exits with status 2
\* before any pane-list query, capture or notification; with a URL or with
\* dry_run it enters the poll loop and does not exit.
C9_MissingUrlExitsAtStart ==
    LET missing == ~Truthy(self.webhook_url) /\ ~self.dry_run
    IN /\ pc = "exit" =>
             /\ missing
             /\ exit_status = Some(2)
             /\ effects[Len(effects)] = <<"exit", 2>>
             /\ cycle = 0
             /\ self.pane_id_to_state = <<>>
             /\ \A op \in {"list-panes", "capture", "notify", "git", "urlopen", "sleep"} :
                    ~HasEffect(effects, op)
       /\ (missing /\ pc # "start") => pc = "exit"
       /\ (~missing /\ pc # "start") => pc \in {"list", "panes"} /\ exit_status = None

C9_Witness ==
    /\ pc = "exit"
    /\ self.webhook_url = Some("")
    /\ exit_status = Some(2)

C9_WitnessDryRun ==
    /\ pc = "panes"
    /\ self.webhook_url = None
    /\ self.dry_run

\* C10: once run() is in the poll loop it goes through one cycle after the
\* other, whatever fails on the way: from the first pane-list query on, cycle
\* MaxCycles is eventually started.  The cycle counter only grows by one, so
\* every cycle before that one is followed by another.
C10_EveryCycleIsFollowedByAnother ==
    /\ (pc = "list" /\ cycle = 0) ~> (cycle = MaxCycles)
    /\ [][cycle' \in {cycle, cycle + 1}]_vars

C10_Witness ==
    /\ cycle = MaxCycles
    /\ pc = "list"
    /\ event = "ListFailed"
    /\ undelivered # {}

\* what the claims take a pattern to match: the command pattern the whole
\* command "cursor" or "cursor-agent", the text pattern "cursor agent" in any
\* case, its words joined, or parted by one space, hyphen or underscore
CommandMatches(pattern, cmd) ==
    pattern = DEFAULT_MATCH_COMMAND /\ cmd \in {"cursor", "cursor-agent"}
MentionsAgent ==
    { Lines(<<AgentLine, UpperTokensLine, <<>>, <<" ">> >>),
      Lines(<<AgentLine, DoneLine>>),
      Lines(<<PromptLine, SnakeLine>>),
      Lines(<<PromptLine, ShoutLine>>),
      Lines(<<PromptLine, GluedLine>>) }
TextMatchesPattern(pattern, text) ==
    pattern = DEFAULT_MATCH_TEXT /\ text \in MentionsAgent

IsCall(op) == call # None /\ Val(call).op = op
Succeeded(cp) == ~cp.exc /\ cp.returncode = 0

\* the one capture of `lines` lines of pane `id`
OneCapture(es, id, lines) ==
    /\ Len(es) = 1
    /\ es[1][1] = "capture" /\ es[1][2] = id /\ es[1][3] = lines

\* C11 as stated: _should_monitor_pane returns true without a capture when the
\* command matches the command pattern; otherwise it captures a 40-line tail and
\* returns true iff the capture succeeds and the text pattern matches the tail.
C11_AlwaysCapturesOtherwise ==
    IsCall("_should_monitor_pane") =>
        LET c == Val(call)
        IN IF CommandMatches(args[4], c.pane.current_command)
           THEN c.ret /\ effects = <<>>
           ELSE /\ OneCapture(effects, c.pane.pane_id, 40)
                /\ c.ret = (Succeeded(c.cp) /\ TextMatchesPattern(args[5], c.cp.stdout))

\* C11, amended: _should_monitor_pane returns true without a capture when the
\* command matches the command pattern; otherwise, with a text pattern
\* configured, it captures a 40-line tail of the pane and returns true iff the
\* capture succeeds and the text pattern matches the tail (false, raising
\* nothing, when the capture fails); with no text pattern configured it makes
\* no capture and returns false.
C11_ShouldMonitorPane ==
    IsCall("_should_monitor_pane") =>
        LET c == Val(call)
        IN IF CommandMatches(args[4], c.pane.current_command)
           THEN c.ret /\ effects = <<>>
           ELSE IF args[5] = ""
           THEN ~c.ret /\ effects = <<>>
           ELSE /\ OneCapture(effects, c.pane.pane_id, 40)
                /\ effects[1][4] = (IF Succeeded(c.cp) THEN "ok" ELSE "error")
                /\ c.ret = (Succeeded(c.cp) /\ TextMatchesPattern(args[5], c.cp.stdout))

\* a pane running bash whose tail names the agent in capitals is monitored
C11_Witness ==
    /\ IsCall("_should_monitor_pane")
    /\ Val(call).pane.current_command = "bash"
    /\ Val(call).cp = Ok(Lines(<<PromptLine, ShoutLine>>))
    /\ Val(call).ret
    /\ OneCapture(effects, Val(call).pane.pane_id, 40)

C11_WitnessFailedCapture ==
    /\ IsCall("_should_monitor_pane")
    /\ Val(call).cp = Fail
    /\ ~Val(call).ret
    /\ effects = << <<"capture", Val(call).pane.pane_id, 40, "error">> >>

Keys(obj) == DOMAIN obj.pane_id_to_state

\* C12: the state map starts empty and its keys are the pane ids fed to the
\* tracker so far: a step adds the id it feeds to the tracker, if it is new, and
\* no step adds another id or removes one, whichever panes the list holds; every
\* entry is one PaneState.
C12_OneStatePerObservedPane ==
    /\ Keys(self) = {}
    /\ [][ /\ Keys(self') =
                 Keys(self) \cup (IF observed' = None THEN {} ELSE {Val(observed').pane_id})
            /\ \A id \in Keys(self') :
                  DOMAIN Entry(self', id) = {"last_seen_active", "last_transition_ts"}
          ]_vars

\* a cycle went over a list without a pane that has an entry
C12_Witness ==
    /\ pc = "panes"
    /\ panes # <<>>
    /\ idx = Len(panes)
    /\ \E id \in Keys(self) : \A i \in 1..Len(panes) : panes[i].pane_id # id
    /\ observed # None

\* the external calls of a step, in order, without the log lines
Ops(es) ==
    LET calls == SelectSeq(es, LAMBDA e : e[1] # "print")
    IN [i \in 1..Len(calls) |-> calls[i][1]]

\* the orders in which the loop body makes its calls for one pane: fallback
\* capture, main capture, dispatch, branch lookup, post
BodyOrders ==
    LET cap == { <<>>, <<"capture">>, <<"capture", "capture">> }
        tail == { <<>>, <<"notify", "git">>, <<"notify", "git", "urlopen">> }
    IN {c \o t : c \in cap, t \in tail}

\* C13: while a pane of the list is left, the next step is the whole loop body
\* for the next pane of the list as the query returned it, and for that pane
\* alone: its captures, its tracker call, its notification and its branch lookup
\* name that pane, in the order filter, capture, tracker, dispatch; the list is
\* not changed and the step after it takes the pane that follows.  So the
\* notifications of a cycle are dispatched in list order.
C13_PanesInListOrder ==
    [][ /\ (pc = "panes" /\ idx < Len(panes)) =>
              LET pane == panes[idx + 1]
              IN /\ pc' = "panes" /\ panes' = panes /\ idx' = idx + 1
                 /\ Ops(effects') \in BodyOrders
                 /\ \A i \in 1..Len(effects') :
                       /\ effects'[i][1] \in {"capture", "notify"} =>
                             effects'[i][2] = pane.pane_id
                       /\ effects'[i][1] = "git" => effects'[i][2] = pane.current_path
                 /\ observed' # None => Val(observed').pane_id = pane.pane_id
                 /\ cycle_events' = Append(cycle_events, event')
                 /\ Notified(effects') = (IF event' = "BecameIdle" THEN 1 ELSE 0)
        /\ ~(pc = "panes" /\ idx < Len(panes)) =>
              /\ ~HasEffect(effects', "capture")
              /\ Notified(effects') = 0
              /\ idx' = 0
      ]_vars

\* both panes of a list went idle in one cycle: the first was notified in the
\* step before, the second in this one
C13_Witness ==
    /\ Len(panes) = 2
    /\ cycle_events = <<"BecameIdle", "BecameIdle">>
    /\ panes[1].pane_id # panes[2].pane_id
    /\ Calls(effects, "notify") = << <<"notify", panes[2].pane_id>> >>
    /\ HasEffect(effects, "urlopen")

\* the output of the branch lookup without the blanks around it
Trimmed ==
    (<<>> :> "") @@ (<<"\n">> :> "") @@ (<<"H", "E", "A", "D", "\n">> :> "HEAD")
    @@ (<<"H", "E", "A", "D">> :> "HEAD") @@ (<<"m", "a", "i", "n", "\n">> :> "main")
    @@ (<<" ", "d", "e", "v", " ", "\n">> :> "dev")

\* the reference and the path of the panes of PaneLine
RefOf == ("%1" :> "work:0.1") @@ ("%2" :> "dev:2.0")
PathOf == ("%1" :> "/home/u/proj") @@ ("%2" :> "/tmp")

\* C14: the message of an idle notification is the marker phrase, the pane
\* reference session:window.pane and the pane's path, followed by " (branch X)"
\* iff the branch lookup returned status zero with an output X (less the blanks
\* around it) that is neither empty nor "HEAD", and by nothing otherwise.  The
\* lookup is made for the pane's path; whatever it answers, the message is logged
\* and, with a URL and without dry_run, posted.
C14_MessageAndBranchSuffix ==
    IsCall("_send_idle_notification") =>
        LET c == Val(call)
            id == c.pane.pane_id
            X == Trimmed[c.git.stdout]
            named == ~c.git.exc /\ c.git.returncode = 0 /\ X # "" /\ X # "HEAD"
            message == "Cursor-Agent idle in " \o RefOf[id] \o " " \o EMDASH \o " "
                          \o PathOf[id] \o (IF named THEN " (branch " \o X \o ")" ELSE "")
            posts == Calls(effects, "urlopen")
        IN /\ Calls(effects, "git") = << <<"git", PathOf[id]>> >>
           /\ Calls(effects, "notify") = << <<"notify", id>> >>
           /\ self.verbose => NotifyLines(effects) = << <<"print", "NOTIFY: ", message>> >>
           /\ (Truthy(self.webhook_url) /\ ~self.dry_run) =>
                 /\ Len(posts) = 1
                 /\ posts[1][2] = Val(self.webhook_url)
                 /\ posts[1][3] = [content |-> message]
           /\ (~Truthy(self.webhook_url) \/ self.dry_run) => posts = <<>>

\* the lookup timed out or failed and the message went out without a suffix
C14_Witness ==
    /\ IsCall("_send_idle_notification")
    /\ Val(call).git = Raise
    /\ Val(call).pane.pane_id = "%2"
    /\ \E i \in 1..Len(effects) :
          /\ effects[i][1] = "urlopen"
          /\ effects[i][3] = [content |-> "Cursor-Agent idle in dev:2.0 -- /tmp"]
          /\ effects[i][4] = "ok"

C14_WitnessBranch ==
    /\ IsCall("_send_idle_notification")
    /\ Val(call).git = Ok(<<" ", "d", "e", "v", " ", "\n">>)
    /\ \E i \in 1..Len(effects) :
          /\ effects[i][1] = "urlopen"
          /\ effects[i][3] =
                [content |-> "Cursor-Agent idle in work:0.1 -- /home/u/proj (branch dev)"]

\* the lines that hold the whole word "tokens" in any case, alone or after
\* digits and blanks
WithWord == {WordLine, TokensLine, UpperTokensLine, CapsLine, HyphenLine}
NonBlank(line) == line \notin {BlankLine, <<>>}

\* C15: _detect_active(text) is true iff one of the last 20 lines of text that
\* are not blank holds the whole word "tokens": of a scrollback made of a top
\* line, `fill` lines "x", some blank lines and a last line, the top line counts
\* iff it and the non-blank lines below it are at most 20, however many
\* blank lines lie between.
C15_DetectActiveTail ==
    IsCall("_detect_active") =>
        LET c == Val(call)
            below == c.fill + (IF NonBlank(c.last) THEN 1 ELSE 0)
            in_tail == 1 + below <= 20
        IN c.ret = (c.last \in WithWord \/ (in_tail /\ c.top \in WithWord))

\* the word 19 non-blank lines and three blank lines above the end is seen
C15_Witness ==
    /\ IsCall("_detect_active")
    /\ Val(call).top = UpperTokensLine
    /\ Val(call).fill = 18 /\ Val(call).last = FillerLine
    /\ Val(call).blanks = 3
    /\ Val(call).ret

\* the word 20 non-blank lines above the end is not
C15_WitnessAbove ==
    /\ IsCall("_detect_active")
    /\ Val(call).top = TokensLine
    /\ Val(call).fill = 19 /\ Val(call).last = FillerLine
    /\ ~Val(call).ret

\* C16: whatever --interval and --lines are, zero and negative too, the
\* Notifier holds the interval raised to 2 and the line count raised to 20 where
\* they are less and as given otherwise; only the end of a cycle and a failed
\* pane list sleep, each for that interval; the capture of a pane for
\* classification asks for that line count, and the capture of the filter, made
\* before it or for a pane that is then skipped, for 40 lines.
C16_FloorsOfIntervalAndLines ==
    LET interval == IF args[2] < 2 THEN 2 ELSE args[2]
        window == IF args[3] < 20 THEN 20 ELSE args[3]
        caps == Calls(effects, "capture")
        sleeps == Calls(effects, "sleep")
    IN /\ self.interval_seconds = interval
       /\ self.scan_lines = window
       /\ sleeps = (IF event \in {"Slept", "ListFailed"}
                    THEN << <<"sleep", interval>> >> ELSE <<>>)
       /\ Len(caps) <= 2
       /\ Len(caps) = 2 => caps[1][3] = 40 /\ caps[2][3] = window
       /\ Len(caps) = 1 => caps[1][3] = (IF event = "Skipped" THEN 40 ELSE window)
       /\ event \in TrackerEvents \cup {"CaptureFailed"} => caps # <<>>

\* --interval -1 --lines 0: a pane was let in by the filter's capture and
\* captured again for classification
C16_Witness ==
    /\ args[2] < 0 /\ args[3] = 0
    /\ now = 2
    /\ Len(Calls(effects, "capture")) = 2
    /\ Calls(effects, "capture")[2][3] = 20

C16_WitnessSleep ==
    /\ args[2] = 0 /\ args[3] < 0
    /\ effects = << <<"sleep", 2>> >>

\* C17: a step that makes no tracker call leaves the Notifier, and with it
\* every PaneState and the set of keys, as it was: the pane-list query, failed or
\* not, the filter with its capture, a failed main capture, the sleep.  A step
\* with a tracker call changes the entry of the pane fed and nothing else, and
\* what it stores follows from the entry before and the observation alone,
\* whatever the branch lookup and the post of the notification return.
C17_OnlyTheTrackerWritesTheStateMap ==
    [][ /\ observed' = None => self' = self
        /\ [self' EXCEPT !.pane_id_to_state = self.pane_id_to_state] = self
        /\ observed' # None =>
              LET id == Val(observed').pane_id
                  la == Val(observed').looks_active
                  same == id \in Keys(self) /\ Entry(self, id).last_seen_active = Some(la)
                  ts == IF same THEN Entry(self, id).last_transition_ts ELSE now'
              IN /\ Keys(self') = Keys(self) \cup {id}
                 /\ \A other \in Keys(self) \ {id} : Entry(self', other) = Entry(self, other)
                 /\ Entry(self', id) = Stored(la, ts)
      ]_vars

\* the filter captured the tail of a pane stored as active and turned it away
C17_Witness ==
    /\ event = "Skipped"
    /\ HasEffect(effects, "capture")
    /\ pc = "panes" /\ idx >= 1
    /\ IsSet(self, panes[idx].pane_id)
    /\ Entry(self, panes[idx].pane_id).last_seen_active = Some(TRUE)
    /\ Entry(self, panes[idx].pane_id).last_transition_ts < now

NotifiedFor(es, id) == \E i \in 1..Len(es) : es[i] = <<"notify", id>>

\* C18: for a pane stored as active, every step that does not feed it to the
\* tracker (its filter turned it away, its capture failed, another pane was
\* taken, the pane list failed or lacks it, the sleep) keeps its PaneState and
\* dispatches no notification for it, so an entry left out by a whole cycle is
\* older than the cycle; the step that then feeds it idle dispatches exactly one
\* notification, for it, and stores Idle; a step that turns a pane away
\* dispatches nothing.
C18_SkippedPaneKeepsItsState ==
    [][ /\ \A id \in ActiveIds(self) :
              /\ (observed' = None \/ Val(observed').pane_id # id) =>
                    /\ Entry(self', id) = Entry(self, id)
                    /\ ~NotifiedFor(effects', id)
              /\ observed' = Fed(id, FALSE) =>
                    /\ Calls(effects', "notify") = << <<"notify", id>> >>
                    /\ Entry(self', id) = Stored(FALSE, now')
              /\ observed' = Fed(id, TRUE) =>
                    /\ Notified(effects') = 0
                    /\ Entry(self', id) = Entry(self, id)
        /\ \A id \in stale' \cap ActiveIds(self') :
              Entry(self', id).last_transition_ts < now'
        /\ event' \in {"Skipped", "CaptureFailed", "ListFailed"} =>
              Notified(effects') = 0 /\ observed' = None
      ]_vars

\* a pane stored as active in the first cycle, not fed to the tracker in the
\* second, is observed idle in the third and notified once
C18_Witness ==
    \E id \in stale :
        /\ observed = Fed(id, FALSE)
        /\ event = "BecameIdle"
        /\ Calls(effects, "notify") = << <<"notify", id>> >>
        /\ Entry(self, id) = Stored(FALSE, now)
        /\ cycle = 3

\* the events the observations `o` of one pane give by themselves
EventsOf(o) ==
    [i \in 1..Len(o) |->
        IF i = 1 THEN "Initialized"
        ELSE IF o[i - 1] /\ ~o[i] THEN "BecameIdle"
        ELSE IF ~o[i - 1] /\ o[i] THEN "BecameActive"
        ELSE "NoChange"]

\* C19: a tracker call for pane P leaves the PaneState of every other pane id
\* as it was and adds no key but P; and the events of a pane are those its own
\* observations give, however the calls for another pane fall between them.
C19_TrackerTouchesOnePane ==
    /\ [](\A id \in PaneIds :
             /\ Events(history[id]) = EventsOf(Obs(history[id]))
             /\ \A i \in 1..Len(history[id]) :
                   history[id][i].notified =
                       (IF history[id][i].event = "BecameIdle" THEN 1 ELSE 0))
    /\ [][ \A id \in PaneIds :
               (observed' # None /\ Val(observed').pane_id = id) =>
                  /\ Keys(self') = Keys(self) \cup {id}
                  /\ \A other \in Keys(self) \ {id} : Entry(self', other) = Entry(self, other)
                  /\ \A i \in 1..Len(effects') :
                        effects'[i][1] = "notify" => effects'[i][2] = id
          ]_vars

\* two panes fed in turn: "%1" went idle at time 3, "%2" active at time 4
C19_Witness ==
    /\ Obs(history["%1"]) = <<TRUE, FALSE>>
    /\ Obs(history["%2"]) = <<FALSE, TRUE>>
    /\ Entry(self, "%1") = Stored(FALSE, 3)
    /\ Entry(self, "%2") = Stored(TRUE, 4)
    /\ observed = Fed("%2", TRUE)

Written == {"Initialized", "BecameIdle", "BecameActive"}

\* C20: every entry of the state map holds Active or Idle, never the unset
\* value, in every state; an entry is created by a tracker call for its pane,
\* which is its first, and that call stores the time of the call; afterwards the
\* timestamp is written, with the time of the call, by the calls for the pane
\* that find it changed (BecameIdle, BecameActive) and by no other step.
C20_EntriesAreSetAndStamped ==
    /\ [](\A id \in Keys(self) :
             Entry(self, id).last_seen_active \in {Some(TRUE), Some(FALSE)})
    /\ [][ \A id \in Keys(self') :
               LET fed == observed' # None /\ Val(observed').pane_id = id
                   new == id \notin Keys(self)
                   ts == Entry(self', id).last_transition_ts
               IN /\ new => fed /\ event' = "Initialized"
                  /\ (fed /\ event' = "Initialized") => new
                  /\ (fed /\ event' \in Written) => ts = now'
                  /\ ~(fed /\ event' \in Written) =>
                        ts = Entry(self, id).last_transition_ts
                  /\ fed => event' \in Written \cup {"NoChange"}
          ]_vars

\* a pane first seen in a later cycle, beside one stamped in the first cycle
C20_Witness ==
    \E id \in Keys(self) :
        /\ observed = Fed(id, FALSE)
        /\ event = "Initialized"
        /\ Entry(self, id) = Stored(FALSE, now)
        /\ now > 0
        /\ \E other \in Keys(self) \ {id} : Entry(self, other).last_transition_ts = 0

====
